---------------------------- MODULE Spec2Model ----------------------------
(***************************************************************************)
(* Model of the logical-expression driver (foo-copy.py): the format        *)
(* pre-check, the text normalisation, the recursive-descent parser, the    *)
(* pre-flight verification of script hashes, and the evaluation of the     *)
(* expression tree with circuit-breaking and plain AND / OR / NOT.         *)
(*                                                                         *)
(* Texts are sequences of one-character strings.  Cursor positions are     *)
(* 0-based as in the Python source: At(s, i) is s[i].                      *)
(***************************************************************************)
EXTENDS Integers, Sequences, FiniteSets, TLC

(***************************************************************************)
(* Python string primitives.                                               *)
(***************************************************************************)

\* str.isspace() / the regex class \s, over the characters used here
Whitespace == {" ", "\t"}

IsSpace(c) == c \in Whitespace

Min(a, b) == IF a < b THEN a ELSE b

Max(a, b) == IF a > b THEN a ELSE b

\* s[i] for 0 <= i < len(s)
At(s, i) == s[i + 1]

\* one bound of a slice: negative counts from the end, then clamped
SliceBound(s, i) == IF i < 0 THEN Max(Len(s) + i, 0) ELSE Min(i, Len(s))

\* s[a:b]
Slice(s, a, b) ==
    LET lo == SliceBound(s, a)
        hi == SliceBound(s, b)
    IN  IF lo >= hi THEN << >> ELSE SubSeq(s, lo + 1, hi)

\* s.startswith(t, i)
StartsWithAt(s, t, i) ==
    /\ i + Len(t) <= Len(s)
    /\ \A k \in 1..Len(t) : s[i + k] = t[k]

\* s.find(t, start): the least index >= start where t occurs, or -1
Find(s, t, start) ==
    LET hits == {i \in start..(Len(s) - Len(t)) : StartsWithAt(s, t, i)}
    IN  IF hits = {} THEN -1 ELSE CHOOSE i \in hits : \A j \in hits : i <= j

\* s.count(c) for a single character c
Count(s, c) == Cardinality({i \in 1..Len(s) : s[i] = c})

\* the first index >= i that holds no whitespace (len(s) if none)
SkipSpace(s, i) ==
    LET stops == {j \in i..Len(s) : j = Len(s) \/ ~IsSpace(At(s, j))}
    IN  IF i >= Len(s) THEN i ELSE CHOOSE j \in stops : \A k \in stops : j <= k

\* s.strip()
Strip(s) ==
    LET keep == {i \in 1..Len(s) : ~IsSpace(s[i])}
    IN  IF keep = {} THEN << >>
        ELSE SubSeq(s, CHOOSE i \in keep : \A j \in keep : i <= j,
                       CHOOSE i \in keep : \A j \in keep : i >= j)

\* sep.join(parts)
RECURSIVE Join(_, _)
Join(parts, sep) ==
    IF parts = << >> THEN << >>
    ELSE IF Len(parts) = 1 THEN parts[1]
    ELSE parts[1] \o sep \o Join(Tail(parts), sep)

(***************************************************************************)
(* The format pre-check and the normalisation of parse_logical_expression. *)
(***************************************************************************)

\* the scan of validate_expression_format for one operator token op:
\* TRUE iff every occurrence counted is followed by "[".  scan[i] is the
\* while loop entered with index i.
OperatorScan(expr, op) ==
    LET scan[i \in 0..Len(expr)] ==
            IF i >= Len(expr) THEN TRUE
            ELSE LET f == Find(expr, op, i) IN
                 IF f = -1 THEN TRUE
                 ELSE IF Len(op) = 1 /\ f + 1 < Len(expr) /\ At(expr, f + 1) = At(expr, f)
                      THEN scan[f + 1]
                 ELSE LET j == SkipSpace(expr, f + Len(op)) IN
                      IF j >= Len(expr) \/ At(expr, j) # "["
                      THEN FALSE
                      ELSE scan[f + Len(op)]
    IN  scan[0]

validate_expression_format(expression) ==
    /\ Count(expression, "[") = Count(expression, "]")
    /\ Count(expression, "(") = Count(expression, ")")
    /\ \A op \in {<<"&", "&">>, <<"|", "|">>, <<"&">>, <<"|">>} :
           OperatorScan(expression, op)

\* re.sub(r'\s*c\s*', rep, s); sub[i] is the substitution from index i on
SubAround(s, c, rep) ==
    LET sub[i \in 0..Len(s)] ==
            IF i >= Len(s) THEN << >>
            ELSE LET j == SkipSpace(s, i) IN
                 IF j < Len(s) /\ At(s, j) = c
                 THEN rep \o sub[SkipSpace(s, j + 1)]
                 ELSE <<At(s, i)>> \o sub[i + 1]
    IN  sub[0]

\* re.sub(r'\s+', ' ', s)
CollapseSpace(s) ==
    LET sub[i \in 0..Len(s)] ==
            IF i >= Len(s) THEN << >>
            ELSE IF IsSpace(At(s, i))
                 THEN <<" ">> \o sub[SkipSpace(s, i)]
                 ELSE <<At(s, i)>> \o sub[i + 1]
    IN  sub[0]

\* the six substitutions applied in order, then strip(); each is applied
\* to the text the one before it produced (a one-element set at each stage)
Normalize(expression) ==
    LET Sub(texts, c, rep) == {SubAround(s, c, rep) : s \in texts}
        s1 == Sub({expression}, "[", <<" ", "[", " ">>)
        s2 == Sub(s1, "]", <<" ", "]", " ">>)
        s3 == Sub(s2, "(", <<" ", "(", " ">>)
        s4 == Sub(s3, ")", <<" ", ")", " ">>)
        s5 == Sub(s4, ",", <<",", " ">>)
    IN  CHOOSE r \in {Strip(CollapseSpace(s)) : s \in s5} : TRUE

(***************************************************************************)
(* Syntax tree nodes.  The absent node (Python None) is a record too, so   *)
(* that nodes of every kind compare.  A node's mutable result field is     *)
(* kept apart, in the variable results.                                    *)
(***************************************************************************)

None == [type |-> "None"]

ScriptNode(name, args) == [type |-> "ScriptNode", name |-> name, args |-> args]

NotNode(child) == [type |-> "NotNode", child |-> child]

AndNode(circuit_breaking, children) ==
    [type |-> "AndNode",
     operator |-> IF circuit_breaking THEN <<"&", "&">> ELSE <<"&">>,
     circuit_breaking |-> circuit_breaking,
     children |-> children]

OrNode(circuit_breaking, children) ==
    [type |-> "OrNode",
     operator |-> IF circuit_breaking THEN <<"|", "|">> ELSE <<"|">>,
     circuit_breaking |-> circuit_breaking,
     children |-> children]

IsOperatorNode(node) == node.type \in {"AndNode", "OrNode"}

\* LogicalOperatorNode.add_child
add_child(node, child) == [node EXCEPT !.children = Append(@, child)]

\* a string form that leaves the arguments of a script out
RECURSIVE Str_WithoutArgs(_)
Str_WithoutArgs(node) ==
    IF node.type = "ScriptNode"
    THEN <<"(">> \o node.name \o <<")">>
    ELSE IF node.type = "NotNode"
    THEN <<"!">> \o Str_WithoutArgs(node.child)
    ELSE IF IsOperatorNode(node)
    THEN node.operator \o <<" ", "[", " ">>
         \o Join([i \in 1..Len(node.children) |-> Str_WithoutArgs(node.children[i])],
                 <<",", " ">>)
         \o <<" ", "]">>
    ELSE <<"N", "o", "n", "e">>

\* __str__ of each node class; str(None) is the text None
RECURSIVE Str(_)
Str(node) ==
    IF node.type = "ScriptNode"
    THEN IF node.args # << >>
         THEN <<"(">> \o node.name \o <<":">> \o Join(node.args, <<",">>) \o <<")">>
         ELSE <<"(">> \o node.name \o <<")">>
    ELSE IF node.type = "NotNode"
    THEN <<"!">> \o Str(node.child)
    ELSE IF IsOperatorNode(node)
    THEN node.operator \o <<" ", "[", " ">>
         \o Join([i \in 1..Len(node.children) |-> Str(node.children[i])], <<",", " ">>)
         \o <<" ", "]">>
    ELSE <<"N", "o", "n", "e">>

(***************************************************************************)
(* _parse_script_node: an atom (Name) or (Name:arg1,arg2).                 *)
(***************************************************************************)

\* strip one pair of surrounding double quotes
StripQuotes(arg_str) ==
    IF Len(arg_str) >= 2 /\ arg_str[1] = "\"" /\ arg_str[Len(arg_str)] = "\""
    THEN SubSeq(arg_str, 2, Len(arg_str) - 1)
    ELSE arg_str

\* the argument loop: escapes, quotes, commas outside quotes.  loop[v] is
\* the while loop entered with the values v of its variables; after it,
\* the last argument is added
ParseArgs(args_str) ==
    LET Locals == [i : Nat, current_arg : Seq(STRING), in_quotes : BOOLEAN,
                   args : Seq(Seq(STRING))]
        loop[v \in Locals] ==
            IF v.i >= Len(args_str)
            THEN IF v.current_arg # << >>
                 THEN Append(v.args, StripQuotes(Strip(v.current_arg)))
                 ELSE v.args
            ELSE LET char == At(args_str, v.i) IN
                 IF char = "\\" /\ v.i + 1 < Len(args_str)
                 THEN loop[[v EXCEPT !.i = @ + 2,
                                     !.current_arg = Append(@, At(args_str, v.i + 1))]]
                 ELSE IF char = "\""
                 THEN loop[[v EXCEPT !.i = @ + 1,
                                     !.current_arg = Append(@, char),
                                     !.in_quotes = ~@]]
                 ELSE IF char = "," /\ ~v.in_quotes
                 THEN loop[[v EXCEPT !.i = @ + 1,
                                     !.current_arg = << >>,
                                     !.args = Append(@, StripQuotes(Strip(v.current_arg)))]]
                 ELSE loop[[v EXCEPT !.i = @ + 1,
                                     !.current_arg = Append(@, char)]]
    IN  loop[[i |-> 0, current_arg |-> << >>, in_quotes |-> FALSE, args |-> << >>]]

\* returns the node and the position after the closing parenthesis
parse_script_node(expr, pos) ==
    LET colon_pos == Find(expr, <<":">>, pos + 1)
        close_pos == Find(expr, <<")">>, pos + 1)
    IN  IF colon_pos # -1 /\ colon_pos < close_pos
        THEN [node |-> ScriptNode(Strip(Slice(expr, pos + 1, colon_pos)),
                                  ParseArgs(Strip(Slice(expr, colon_pos + 1, close_pos)))),
              pos |-> close_pos + 1]
        ELSE [node |-> ScriptNode(Strip(Slice(expr, pos + 1, close_pos)), << >>),
              pos |-> close_pos + 1]

(***************************************************************************)
(* Trees: paths, the nodes below a node, the script names of a tree.       *)
(***************************************************************************)

\* the children of a node as a sequence (a NOT node has one, or none)
ChildrenOf(node) ==
    IF IsOperatorNode(node) THEN node.children
    ELSE IF node.type = "NotNode" /\ node.child # None THEN <<node.child>>
    ELSE << >>

\* the node reached from node by the child indices of path
RECURSIVE NodeAt(_, _)
NodeAt(node, path) ==
    IF path = << >> THEN node
    ELSE NodeAt(ChildrenOf(node)[Head(path)], Tail(path))

\* every path of the tree below node, each prefixed by prefix
RECURSIVE PathsFrom(_, _)
PathsFrom(node, prefix) ==
    {prefix} \cup
    UNION {PathsFrom(ChildrenOf(node)[i], Append(prefix, i)) :
               i \in 1..Len(ChildrenOf(node))}

Paths(tree) == IF tree = None THEN {} ELSE PathsFrom(tree, << >>)

IsPrefix(p, q) == Len(p) <= Len(q) /\ SubSeq(q, 1, Len(p)) = p

\* a collection that does not descend below NOT nodes
RECURSIVE collect_script_names_ignoring_not(_)
collect_script_names_ignoring_not(node) ==
    IF node.type = "ScriptNode" THEN <<node.name>>
    ELSE IF IsOperatorNode(node)
    THEN LET RECURSIVE Extend(_)
             Extend(i) ==
                 IF i > Len(node.children) THEN << >>
                 ELSE collect_script_names_ignoring_not(node.children[i]) \o Extend(i + 1)
         IN  Extend(1)
    ELSE << >>

\* names.extend(...) over the children, left to right
RECURSIVE collect_script_names_from_tree(_)
collect_script_names_from_tree(node) ==
    IF node.type = "ScriptNode" THEN <<node.name>>
    ELSE IF node.type = "NotNode"
    THEN IF node.child # None THEN collect_script_names_from_tree(node.child) ELSE << >>
    ELSE IF IsOperatorNode(node)
    THEN LET RECURSIVE Extend(_)
             Extend(i) ==
                 IF i > Len(node.children) THEN << >>
                 ELSE collect_script_names_from_tree(node.children[i]) \o Extend(i + 1)
         IN  Extend(1)
    ELSE << >>

\* set(script_names)
Range(seq) == {seq[i] : i \in 1..Len(seq)}

(***************************************************************************)
(* The registry of expected hashes and the outcomes of running a script.   *)
(***************************************************************************)

script_hashes ==
    (<<"A">> :> "6c8c069a22d96be8a18c21722cdac82d") @@
    (<<"B">> :> "efa8b2f56b3c0c5414e8bf6f91da1dd5") @@
    (<<"C">> :> "d1a041a123788ac2406389c107512f1d") @@
    (<<"D">> :> "32453a3fda76985d04905378d172f3ce") @@
    (<<"E">> :> "2861031a067f87fdb0d2bb7ebf0bd679")

\* script_hashes.get(name): the text None when there is no entry
expected_hash_of(name) ==
    IF name \in DOMAIN script_hashes THEN script_hashes[name] ELSE "None"

\* what a script folder can be found to be: absent, or present with the
\* digest calculate_directory_hash computes for it
DirStates(name) ==
    {"absent", "00000000000000000000000000000000"} \cup
    (IF name \in DOMAIN script_hashes THEN {script_hashes[name]} ELSE {})

\* the ways dynamic_import_and_run ends, and the status it returns for each
RunOutcomes ==
    {"folder not found", "script not found", "error loading",
     "function not found", "error running", "finished"}

RunStatus(outcome) == IF outcome = "finished" THEN 0 ELSE 1

(***************************************************************************)
(* The inputs: the command line.  The expressions are the string forms of  *)
(* every tree of at most MaxNodes nodes over three script names (Z has no  *)
(* entry in script_hashes), and texts that take the parser through its     *)
(* quoting, recovery and failure paths.                                    *)
(***************************************************************************)

MaxNodes == 3

GenNames == {<<"A">>, <<"B">>, <<"Z">>}

RECURSIVE Trees(_), Forests(_)
\* the trees of exactly n nodes
Trees(n) ==
    IF n < 1 THEN {}
    ELSE (IF n = 1 THEN {ScriptNode(name, << >>) : name \in GenNames} ELSE {})
         \cup {NotNode(t) : t \in Trees(n - 1)}
         \cup {AndNode(cb, f) : cb \in BOOLEAN, f \in Forests(n - 1)}
         \cup {OrNode(cb, f) : cb \in BOOLEAN, f \in Forests(n - 1)}

\* the non-empty sequences of trees of n nodes in all
Forests(n) ==
    {<<t>> : t \in Trees(n)} \cup
    UNION {{<<t>> \o f : t \in Trees(k), f \in Forests(n - k)} : k \in 1..(n - 1)}

GeneratedTexts == {Str(t) : t \in UNION {Trees(n) : n \in 1..MaxNodes}}

ExtraTexts ==
    {
     <<"(", "A", ":", "\"", "x", ",", "y", "\"", ",", "z", ")">>,   \* a quoted argument holding a comma
     <<"(", "A", ")", "(", "B", ")">>,   \* content after the top-level expression
     <<"&", "[", ")", "(", "]">>,   \* a stray parenthesis among the children
     <<>>,   \* the empty text
     <<"x", "(", "A", ")">>,   \* an unexpected first character
     <<"&", "&", " ", "(", "A", ")">>,   \* an operator without its bracket
     <<"(", "(", "A", ")">>,   \* unbalanced parentheses
     <<"!">>,   \* NOT with nothing after it
     <<"|", " ", "[", " ", "!", "(", "A", ")", ",", " ", "!", " ", "]">>,   \* NOT with a child and NOT with none
     <<"|", "|", " ", "[", " ", "]">>,   \* an operator with no children
     <<"&", "&", " ", "[", " ", "]">>,   \* an AND with no children
     <<"&", "&", "[", "(", "A", ")", ",", "(", "B", ")", ",", "(", "C", ")", "]">>,   \* three children, no spaces
     <<"|", "|", " ", "[", " ", "(", "A", ")", ",", " ", "(", "B", ")", ",", " ", "(", "A", ")", " ", "]">>,   \* three children, a name twice
     <<"&", " ", "[", " ", "(", "A", ")", " ", "(", "B", ")", ",", " ", "x", ",", " ", "(", "A", ")", " ", "]">>,   \* a missing comma and an unexpected character
     <<"|", " ", "[", "\t", "(", "A", ":", "1", ",", " ", "2", ")", " ", ",", "(", "B", ":", " ", "p", " ", "q", " ", ")", ",", "(", "A", ")", " ", "]">>,   \* arguments, a tab, inner spaces
     <<"|", "|", " ", "[", " ", "&", "&", " ", "[", " ", "(", "A", ")", ",", " ", "(", "B", ")", " ", "]", ",", " ", "!", "(", "B", ")", " ", "]">>,   \* nested operators
     <<"!", "&", " ", "[", " ", "!", "(", "A", ")", ",", " ", "|", " ", "[", " ", "(", "B", ")", ",", " ", "(", "A", ")", " ", "]", " ", "]">>,   \* NOT over a nested operator
     <<"(", "A", ":", "\"", "\"", ")">>,   \* an empty quoted argument
     <<"(", "A", ":", "a", "\\", ",", "b", ",", "\"", "c", "\\", "\"", "d", "\"", ")">>,   \* escaped characters
     <<"(", "B", ":", ",", "x", ",", ")">>   \* empty arguments
    }

Expressions == GeneratedTexts \cup ExtraTexts

\* sys.argv: the program name, the log id, the expression
CommandLines ==
    {<<"foo.py">>, <<"foo.py", "log1">>} \cup
    {<<"foo.py", "log1", e>> : e \in Expressions}

(***************************************************************************)
(* The state.                                                              *)
(***************************************************************************)
VARIABLES
    argv,             \* sys.argv
    pc,               \* the statement the run is at
    text,             \* the argument of parse_logical_expression
    expr,             \* the normalised text being parsed
    pos,              \* the parser's cursor
    stack,            \* the calls of _parse_expression waiting for a child
    ret,              \* the node the last finished _parse_expression returned
    expression_tree,  \* what parse_logical_expression returned
    script_names,     \* the list of script names to verify
    checked,          \* the folders verified so far, as they were found
    all_hashes_valid,
    frames,           \* the calls of evaluate waiting for a child
    cur,              \* the path of the node whose evaluate is being called
    child_result,     \* what the last finished evaluate returned
    results,          \* each node's result field, by path
    invoked,          \* the calls of executor_func so far
    evaluated,        \* the nodes whose evaluate has returned, in order
    stderr,           \* the lines written to sys.stderr
    exit_code,        \* the argument of sys.exit; -1 while the run goes on
    first             \* in a round trip, the tree of the first parse once made;
                      \* in two evaluations, what the first one left

parser_vars == <<text, expr, pos, stack, ret, expression_tree>>

verify_vars == <<script_names, checked, all_hashes_valid>>

eval_vars == <<frames, cur, child_result, results, invoked, evaluated>>

vars == <<argv, pc, text, expr, pos, stack, ret, expression_tree, script_names,
          checked, all_hashes_valid, frames, cur, child_result, results,
          invoked, evaluated, stderr, exit_code, first>>

\* the state of everything but the command line and the text to parse
\* before anything ran
Fresh ==
    /\ expr = << >>
    /\ pos = 0
    /\ stack = << >>
    /\ ret = None
    /\ expression_tree = None
    /\ script_names = << >>
    /\ checked = << >>
    /\ all_hashes_valid = TRUE
    /\ frames = << >>
    /\ cur = << >>
    /\ child_result = FALSE
    /\ results = << >>
    /\ invoked = << >>
    /\ evaluated = << >>
    /\ stderr = << >>
    /\ exit_code = -1
    /\ first = << >>

Init ==
    /\ argv \in CommandLines
    /\ pc = "main"
    /\ text = << >>
    /\ Fresh

\* a write that leaves only the last line on the stream
stderr_write_Overwriting(stream, value) == <<value>>

\* sys.stderr.write(f"{value}\n"): one more line on the stream
stderr_write(stream, value) == Append(stream, value)

(***************************************************************************)
(* parse_logical_expression and the recursive-descent parser, one action   *)
(* per call, loop turn and return.                                         *)
(***************************************************************************)

\* main, up to the call of parse_logical_expression
MainStart ==
    /\ pc = "main"
    /\ IF Len(argv) < 3
       THEN /\ stderr' = stderr_write(stderr, 1)
            /\ exit_code' = 1
            /\ pc' = "done"
            /\ text' = text
       ELSE /\ text' = argv[3]
            /\ pc' = "parse_logical_expression"
            /\ UNCHANGED <<stderr, exit_code>>
    /\ UNCHANGED <<argv, expr, pos, stack, ret, expression_tree, first>>
    /\ UNCHANGED <<verify_vars, eval_vars>>

\* the format pre-check (None on failure), the normalisation, and the call
\* of _parse_expression(expression, 0)
ParseLogicalExpression ==
    /\ pc = "parse_logical_expression"
    /\ IF ~validate_expression_format(text)
       THEN /\ expression_tree' = None
            /\ pc' = "parsed"
            /\ UNCHANGED <<expr, pos>>
       ELSE /\ expr' = Normalize(text)
            /\ pos' = 0
            /\ pc' = "parse_expression"
            /\ UNCHANGED expression_tree
    /\ stack' = << >>
    /\ ret' = None
    /\ UNCHANGED <<argv, text, stderr, exit_code, first>>
    /\ UNCHANGED <<verify_vars, eval_vars>>

\* the recovery of _parse_expression: the next recognisable character
SkipUnexpected(e, p) ==
    LET stops == {j \in p..Len(e) :
                      j = Len(e) \/ At(e, j) \in {"(", ")", "[", "]", ",", "&", "|"}}
    IN  CHOOSE j \in stops : \A k \in stops : j <= k

\* the operator node _parse_expression creates at position p, and the
\* position after its token; type None if no operator starts at p
OperatorAt(e, p) ==
    IF StartsWithAt(e, <<"&", "&">>, p)
    THEN [node |-> AndNode(TRUE, << >>), pos |-> p + 2]
    ELSE IF StartsWithAt(e, <<"|", "|">>, p)
    THEN [node |-> OrNode(TRUE, << >>), pos |-> p + 2]
    ELSE IF At(e, p) = "&" /\ (p + 1 >= Len(e) \/ At(e, p + 1) # "&")
    THEN [node |-> AndNode(FALSE, << >>), pos |-> p + 1]
    ELSE IF At(e, p) = "|" /\ (p + 1 >= Len(e) \/ At(e, p + 1) # "|")
    THEN [node |-> OrNode(FALSE, << >>), pos |-> p + 1]
    ELSE [node |-> None, pos |-> p]

\* a call of _parse_expression(expr, pos), up to its recursive call, its
\* call of _parse_operator_children, or its return
ParseExpression ==
    /\ pc = "parse_expression"
    /\ LET p == SkipSpace(expr, pos) IN
       IF p >= Len(expr)
       THEN /\ ret' = None
            /\ pos' = p
            /\ pc' = "parse_return"
            /\ stack' = stack
       ELSE IF At(expr, p) = "!"
       THEN LET q == SkipSpace(expr, p + 1) IN
            /\ pos' = q
            /\ IF q < Len(expr)
               THEN /\ stack' = Append(stack, [node |-> NotNode(None)])
                    /\ pc' = "parse_expression"
                    /\ ret' = ret
               ELSE /\ ret' = NotNode(None)
                    /\ pc' = "parse_return"
                    /\ stack' = stack
       ELSE IF OperatorAt(expr, p).node # None
       THEN LET op == OperatorAt(expr, p)
                q  == SkipSpace(expr, op.pos)
            IN  IF q < Len(expr) /\ At(expr, q) = "["
                THEN /\ stack' = Append(stack, [node |-> op.node])
                     /\ pos' = q + 1
                     /\ pc' = "parse_operator_children"
                     /\ ret' = ret
                ELSE /\ ret' = op.node
                     /\ pos' = q
                     /\ pc' = "parse_return"
                     /\ stack' = stack
       ELSE IF At(expr, p) = "("
       THEN /\ ret' = parse_script_node(expr, p).node
            /\ pos' = parse_script_node(expr, p).pos
            /\ pc' = "parse_return"
            /\ stack' = stack
       ELSE /\ ret' = None
            /\ pos' = SkipUnexpected(expr, p)
            /\ pc' = "parse_return"
            /\ stack' = stack
    /\ UNCHANGED <<argv, text, expr, expression_tree, stderr, exit_code, first>>
    /\ UNCHANGED <<verify_vars, eval_vars>>

\* the separators the children loop skips
SkipSeparators(e, p) ==
    LET stops == {j \in p..Len(e) :
                      j = Len(e) \/ ~(IsSpace(At(e, j)) \/ At(e, j) = ",")}
    IN  IF p >= Len(e) THEN p ELSE CHOOSE j \in stops : \A k \in stops : j <= k

\* where the children loop of _parse_operator_children goes from position
\* p: into another child (more), or out of the loop
ChildrenLoop(e, p) ==
    IF p < Len(e) /\ At(e, p) # "]"
    THEN LET q == SkipSeparators(e, p) IN
         [more |-> q < Len(e) /\ At(e, q) # "]", pos |-> q]
    ELSE [more |-> FALSE, pos |-> p]

\* one test of the children loop: either the call of _parse_expression for
\* the next child, or the end of the loop, the closing bracket and the
\* return of the operator node
ParseOperatorChildren ==
    /\ pc = "parse_operator_children"
    /\ LET loop == ChildrenLoop(expr, pos) IN
       IF loop.more
       THEN /\ pos' = loop.pos
            /\ pc' = "parse_expression"
            /\ UNCHANGED <<stack, ret>>
       ELSE /\ pos' = IF loop.pos < Len(expr) /\ At(expr, loop.pos) = "]"
                      THEN loop.pos + 1 ELSE loop.pos
            /\ ret' = stack[Len(stack)].node
            /\ stack' = SubSeq(stack, 1, Len(stack) - 1)
            /\ pc' = "parse_return"
    /\ UNCHANGED <<argv, text, expr, expression_tree, stderr, exit_code, first>>
    /\ UNCHANGED <<verify_vars, eval_vars>>

\* a return of _parse_expression to the call that waits for it: a NOT node
\* takes the child and returns in turn, an operator node adds the child
\* (if there is one) and goes round its loop, parse_logical_expression
\* returns the node whether or not the cursor reached the end
ParseReturn ==
    /\ pc = "parse_return"
    /\ IF stack = << >>
       THEN /\ expression_tree' = ret
            /\ pc' = "parsed"
            /\ UNCHANGED <<stack, ret>>
       ELSE LET top == stack[Len(stack)].node IN
            /\ expression_tree' = expression_tree
            /\ IF top.type = "NotNode"
               THEN /\ ret' = NotNode(ret)
                    /\ stack' = SubSeq(stack, 1, Len(stack) - 1)
                    /\ pc' = "parse_return"
               ELSE /\ stack' = [stack EXCEPT ![Len(stack)].node =
                                     IF ret # None THEN add_child(top, ret) ELSE top]
                    /\ ret' = ret
                    /\ pc' = "parse_operator_children"
    /\ UNCHANGED <<argv, text, expr, pos, stderr, exit_code, first>>
    /\ UNCHANGED <<verify_vars, eval_vars>>

(***************************************************************************)
(* main after the parse: the pre-verification of the script hashes.        *)
(***************************************************************************)

\* the result field of a node: None until evaluate sets it, then the
\* status code of a script or the boolean of an operator
IntResult(status) == [type |-> "int", value |-> status]

BoolResult(b) == [type |-> "bool", value |-> b]

\* a test that lets a missing tree through
ParseFailed_Never(tree) == FALSE

\* main's test of what parse_logical_expression returned
ParseFailed(tree) == tree = None

\* a list that keeps every occurrence, as collected
RemoveDuplicates_KeepingAll(names) == {names}

\* list(set(script_names)): the lists this can give, which hold each name
\* once, in whatever order the set is walked
RemoveDuplicates(names) ==
    {order \in [1..Cardinality(Range(names)) -> Range(names)] :
         Range(order) = Range(names)}

\* the check of the parse result, and STEP 1: the distinct script names
MainCheckTree ==
    /\ pc = "parsed"
    /\ IF ParseFailed(expression_tree)
       THEN /\ stderr' = stderr_write(stderr, 1)
            /\ exit_code' = 1
            /\ pc' = "done"
            /\ UNCHANGED <<script_names, results>>
       ELSE /\ script_names' \in
                   RemoveDuplicates(collect_script_names_from_tree(expression_tree))
            /\ results' = [p \in Paths(expression_tree) |-> None]
            /\ pc' = "verify"
            /\ UNCHANGED <<stderr, exit_code>>
    /\ UNCHANGED <<argv, parser_vars, checked, all_hashes_valid, first>>
    /\ UNCHANGED <<frames, cur, child_result, invoked, evaluated>>

\* a turn that skips a script with no expected hash instead of failing
VerifyFails_SkipsMissingHash(script_name, dir) ==
    IF dir = "absent" THEN TRUE
    ELSE IF expected_hash_of(script_name) # "None"
         THEN dir # expected_hash_of(script_name)
         ELSE FALSE

\* one turn of the verification loop for script_name, whose folder is
\* found in state dir: TRUE iff the turn sets all_hashes_valid to False
\* (no folder, no expected hash, or another hash than expected)
VerifyFails(script_name, dir) ==
    IF dir = "absent" THEN TRUE
    ELSE IF expected_hash_of(script_name) # "None"
         THEN dir # expected_hash_of(script_name)
         ELSE TRUE

\* the names the loop has not come to
Remaining == SubSeq(script_names, Len(checked) + 1, Len(script_names))

\* STEP 2, one turn of the loop, for the next name of the list
VerifyScript ==
    /\ pc = "verify"
    /\ all_hashes_valid
    /\ Remaining # << >>
    /\ LET script_name == Head(Remaining) IN
       \E dir \in DirStates(script_name) :
           /\ checked' = Append(checked, [name |-> script_name, dir |-> dir])
           /\ all_hashes_valid' = ~VerifyFails(script_name, dir)
    /\ UNCHANGED <<argv, pc, parser_vars, script_names, eval_vars,
                   stderr, exit_code, first>>

\* the loop is left, by break or at its end: exit 1 on a failure, else the
\* call of expression_tree.evaluate
VerifyEnd ==
    /\ pc = "verify"
    /\ ~all_hashes_valid \/ Remaining = << >>
    /\ IF ~all_hashes_valid
       THEN /\ stderr' = stderr_write(stderr, 1)
            /\ exit_code' = 1
            /\ pc' = "done"
       ELSE /\ pc' = "evaluate"
            /\ UNCHANGED <<stderr, exit_code>>
    /\ cur' = << >>
    /\ frames' = << >>
    /\ UNCHANGED <<argv, parser_vars, verify_vars, child_result, results,
                   invoked, evaluated, first>>

(***************************************************************************)
(* evaluate, one action per call and per return.                           *)
(***************************************************************************)

Pop(seq) == SubSeq(seq, 1, Len(seq) - 1)

Top(seq) == seq[Len(seq)]

\* a conversion by truth value, which reads 0 as false
LogicalResult_Truthy(status) == status # 0

\* logical_result = (self.result == 0)
LogicalResult(status) == status = 0

\* ScriptNode.evaluate: one call of executor_func, its status stored,
\* written to stderr, and compared with 0
EvaluateScript ==
    /\ pc = "evaluate"
    /\ LET node == NodeAt(expression_tree, cur) IN
       /\ node.type = "ScriptNode"
       /\ \E outcome \in RunOutcomes :
              LET status == RunStatus(outcome) IN
              /\ invoked' = Append(invoked, [path |-> cur, name |-> node.name,
                                             args |-> node.args, status |-> status])
              /\ results' = [results EXCEPT ![cur] = IntResult(status)]
              /\ stderr' = stderr_write(stderr, status)
              /\ child_result' = LogicalResult(status)
              /\ evaluated' = Append(evaluated,
                                     [path |-> cur, value |-> LogicalResult(status)])
    /\ pc' = "evaluate_return"
    /\ UNCHANGED <<argv, parser_vars, verify_vars, frames, cur, exit_code, first>>

\* NotNode.evaluate up to the call of its child's evaluate, or, with no
\* child, to its return of False
EvaluateNot ==
    /\ pc = "evaluate"
    /\ LET node == NodeAt(expression_tree, cur) IN
       /\ node.type = "NotNode"
       /\ IF node.child = None
          THEN /\ child_result' = FALSE
               /\ evaluated' = Append(evaluated, [path |-> cur, value |-> FALSE])
               /\ pc' = "evaluate_return"
               /\ UNCHANGED <<frames, cur>>
          ELSE /\ frames' = Append(frames, [path |-> cur, i |-> 1, result |-> FALSE])
               /\ cur' = Append(cur, 1)
               /\ pc' = "evaluate"
               /\ UNCHANGED <<child_result, evaluated>>
    /\ UNCHANGED <<argv, parser_vars, verify_vars, results, invoked,
                   stderr, exit_code, first>>

\* the value result starts with in AndNode.evaluate and OrNode.evaluate
InitialResult(node) == node.type = "AndNode"

\* AndNode.evaluate / OrNode.evaluate up to the call of the first child's
\* evaluate, or, with no children, to the return
EvaluateOperator ==
    /\ pc = "evaluate"
    /\ LET node == NodeAt(expression_tree, cur) IN
       /\ IsOperatorNode(node)
       /\ IF node.children = << >>
          THEN /\ results' = [results EXCEPT ![cur] = BoolResult(InitialResult(node))]
               /\ child_result' = InitialResult(node)
               /\ evaluated' = Append(evaluated,
                                      [path |-> cur, value |-> InitialResult(node)])
               /\ pc' = "evaluate_return"
               /\ UNCHANGED <<frames, cur>>
          ELSE /\ frames' = Append(frames, [path |-> cur, i |-> 1,
                                            result |-> InitialResult(node)])
               /\ cur' = Append(cur, 1)
               /\ pc' = "evaluate"
               /\ UNCHANGED <<results, child_result, evaluated>>
    /\ UNCHANGED <<argv, parser_vars, verify_vars, invoked, stderr, exit_code, first>>

\* a loop body that breaks before it sets result
AndStep_BreaksBeforeFalse(result, value, circuit_breaking) ==
    [result |-> IF ~value /\ ~circuit_breaking THEN FALSE ELSE result,
     break  |-> ~value /\ circuit_breaking]

\* a loop body that never breaks
AndStep_NeverBreaks(result, value, circuit_breaking) ==
    [result |-> IF ~value THEN FALSE ELSE result,
     break  |-> FALSE]

\* the body of the loop of AndNode.evaluate for one child's result:
\* the new value of result, and whether the loop breaks
AndStep(result, value, circuit_breaking) ==
    [result |-> IF ~value THEN FALSE ELSE result,
     break  |-> ~value /\ circuit_breaking]

\* a loop body that breaks whatever the flag
OrStep_AlwaysBreaks(result, value, circuit_breaking) ==
    [result |-> IF value THEN TRUE ELSE result,
     break  |-> value]

\* the same for OrNode.evaluate
OrStep(result, value, circuit_breaking) ==
    [result |-> IF value THEN TRUE ELSE result,
     break  |-> value /\ circuit_breaking]

\* a NOT that passes its child's result on
NotResult_Identity(value) == value

\* result = not child_result, in NotNode.evaluate
NotResult(value) == ~value

\* a child's evaluate returns to NotNode.evaluate, which inverts, stores
\* and returns
ReturnToNot ==
    /\ pc = "evaluate_return"
    /\ frames # << >>
    /\ LET frame == Top(frames) IN
       /\ NodeAt(expression_tree, frame.path).type = "NotNode"
       /\ results' = [results EXCEPT ![frame.path] = BoolResult(NotResult(child_result))]
       /\ child_result' = NotResult(child_result)
       /\ evaluated' = Append(evaluated,
                              [path |-> frame.path, value |-> NotResult(child_result)])
       /\ frames' = Pop(frames)
    /\ UNCHANGED <<argv, pc, parser_vars, verify_vars, cur, invoked,
                   stderr, exit_code, first>>

\* a child's evaluate returns to AndNode.evaluate or OrNode.evaluate: the
\* loop body, then the next child's evaluate, or (after the last child or
\* a break) the result stored and returned
ReturnToOperator ==
    /\ pc = "evaluate_return"
    /\ frames # << >>
    /\ LET frame == Top(frames)
           node  == NodeAt(expression_tree, frame.path)
       IN  /\ IsOperatorNode(node)
           /\ LET step == IF node.type = "AndNode"
                          THEN AndStep(frame.result, child_result, node.circuit_breaking)
                          ELSE OrStep(frame.result, child_result, node.circuit_breaking)
              IN  IF step.break \/ frame.i >= Len(node.children)
                  THEN /\ results' = [results EXCEPT ![frame.path] = BoolResult(step.result)]
                       /\ child_result' = step.result
                       /\ evaluated' = Append(evaluated,
                                              [path |-> frame.path, value |-> step.result])
                       /\ frames' = Pop(frames)
                       /\ UNCHANGED <<pc, cur>>
                  ELSE /\ frames' = [frames EXCEPT ![Len(frames)] =
                                         [frame EXCEPT !.i = @ + 1, !.result = step.result]]
                       /\ cur' = Append(frame.path, frame.i + 1)
                       /\ pc' = "evaluate"
                       /\ UNCHANGED <<results, child_result, evaluated>>
    /\ UNCHANGED <<argv, parser_vars, verify_vars, invoked, stderr, exit_code, first>>

\* a final code that is 0 whatever the result
FinalCode_AlwaysZero(logical_result) == 0

\* the boolean result as exit code
FinalCode(logical_result) == IF logical_result THEN 0 ELSE 1

\* expression_tree.evaluate returns to main: the final code is written to
\* stderr and the run exits with it
MainFinish ==
    /\ pc = "evaluate_return"
    /\ frames = << >>
    /\ stderr' = stderr_write(stderr, FinalCode(child_result))
    /\ exit_code' = FinalCode(child_result)
    /\ pc' = "done"
    /\ UNCHANGED <<argv, parser_vars, verify_vars, eval_vars, first>>

Next ==
    \/ MainStart
    \/ ParseLogicalExpression
    \/ ParseExpression
    \/ ParseOperatorChildren
    \/ ParseReturn
    \/ MainCheckTree
    \/ VerifyScript
    \/ VerifyEnd
    \/ EvaluateScript
    \/ EvaluateNot
    \/ EvaluateOperator
    \/ ReturnToNot
    \/ ReturnToOperator
    \/ MainFinish

Spec == Init /\ [][Next]_vars

\* the run is sequential and every step that can be taken is taken
FairSpec == Init /\ [][Next]_vars /\ WF_vars(Next)

(***************************************************************************)
(* The round trip through the string form: parse_logical_expression, str   *)
(* of the tree, parse_logical_expression again.                            *)
(***************************************************************************)

InitRoundTrip ==
    /\ argv \in {<<"foo.py", "log1", e>> : e \in Expressions}
    /\ pc = "parse_logical_expression"
    /\ text = argv[3]
    /\ Fresh

\* the first parse returned a tree: its string form is parsed in turn
Reserialize ==
    /\ pc = "parsed"
    /\ first = << >>
    /\ expression_tree # None
    /\ first' = <<expression_tree>>
    /\ text' = Str(expression_tree)
    /\ expression_tree' = None
    /\ pc' = "parse_logical_expression"
    /\ UNCHANGED <<argv, expr, pos, stack, ret, stderr, exit_code>>
    /\ UNCHANGED <<verify_vars, eval_vars>>

\* the second parse returned, or the first returned None
RoundTripEnd ==
    /\ pc = "parsed"
    /\ first # << >> \/ expression_tree = None
    /\ pc' = "done"
    /\ UNCHANGED <<argv, parser_vars, verify_vars, eval_vars, stderr, exit_code, first>>

NextRoundTrip ==
    \/ ParseLogicalExpression
    \/ ParseExpression
    \/ ParseOperatorChildren
    \/ ParseReturn
    \/ Reserialize
    \/ RoundTripEnd

SpecRoundTrip == InitRoundTrip /\ [][NextRoundTrip]_vars

(***************************************************************************)
(* The tree used by a caller that evaluates it twice:                      *)
(* parse_logical_expression, evaluate, and evaluate again, on the same     *)
(* tree object or on the tree with every operator made plain.  The logs    *)
(* invoked and evaluated go on through both passes; first keeps where      *)
(* the first pass ended.                                                   *)
(***************************************************************************)

\* a call of evaluate on the tree parse_logical_expression returned; the
\* result field of every node is None from its constructor
CallEvaluate ==
    /\ pc = "parsed"
    /\ expression_tree # None
    /\ results' = [p \in Paths(expression_tree) |-> None]
    /\ pc' = "evaluate"
    /\ cur' = << >>
    /\ frames' = << >>
    /\ UNCHANGED <<argv, parser_vars, verify_vars, child_result, invoked,
                   evaluated, stderr, exit_code, first>>

RECURSIVE Plain(_)
\* the tree with AndNode(circuit_breaking=False) for every AND and
\* OrNode(circuit_breaking=False) for every OR
Plain(node) ==
    IF node.type = "NotNode"
    THEN IF node.child = None THEN node ELSE NotNode(Plain(node.child))
    ELSE IF node.type = "AndNode"
    THEN AndNode(FALSE, [i \in 1..Len(node.children) |-> Plain(node.children[i])])
    ELSE IF node.type = "OrNode"
    THEN OrNode(FALSE, [i \in 1..Len(node.children) |-> Plain(node.children[i])])
    ELSE node

\* the first evaluate has returned to the caller, who calls evaluate on
\* tree; the nodes keep the results the first pass stored
SecondPass(tree) ==
    /\ pc = "evaluate_return"
    /\ frames = << >>
    /\ first = << >>
    /\ first' = <<[tree     |-> expression_tree,
                   value    |-> child_result,
                   results  |-> results,
                   calls    |-> Len(invoked),
                   returns  |-> Len(evaluated)]>>
    /\ expression_tree' = tree
    /\ pc' = "evaluate"
    /\ cur' = << >>
    /\ UNCHANGED <<argv, text, expr, pos, stack, ret, verify_vars, frames,
                   child_result, results, invoked, evaluated, stderr, exit_code>>

\* the second call is on the same tree object
EvaluateAgain == SecondPass(expression_tree)

\* the second call is on the plain form of the tree
EvaluatePlain == SecondPass(Plain(expression_tree))

\* the second evaluate has returned to the caller
SecondReturn ==
    /\ pc = "evaluate_return"
    /\ frames = << >>
    /\ first # << >>
    /\ pc' = "done"
    /\ UNCHANGED <<argv, parser_vars, verify_vars, eval_vars, stderr, exit_code, first>>

NextReevaluate ==
    \/ ParseLogicalExpression
    \/ ParseExpression
    \/ ParseOperatorChildren
    \/ ParseReturn
    \/ CallEvaluate
    \/ EvaluateScript
    \/ EvaluateNot
    \/ EvaluateOperator
    \/ ReturnToNot
    \/ ReturnToOperator
    \/ EvaluateAgain
    \/ SecondReturn

SpecReevaluate == InitRoundTrip /\ [][NextReevaluate]_vars

\* the executor_func is stateless: the same script with the same arguments
\* has the same status in every call of the log
Stateless(log) ==
    \A m, n \in 1..Len(log) :
        (log[m].name = log[n].name /\ log[m].args = log[n].args)
            => log[m].status = log[n].status

\* ScriptNode.evaluate with a stateless executor_func
EvaluateScriptStateless == EvaluateScript /\ Stateless(invoked')

NextEquivalence ==
    \/ ParseLogicalExpression
    \/ ParseExpression
    \/ ParseOperatorChildren
    \/ ParseReturn
    \/ CallEvaluate
    \/ EvaluateScriptStateless
    \/ EvaluateNot
    \/ EvaluateOperator
    \/ ReturnToNot
    \/ ReturnToOperator
    \/ EvaluatePlain
    \/ SecondReturn

SpecEquivalence == InitRoundTrip /\ [][NextEquivalence]_vars

(***************************************************************************)
(* What the properties below are stated in: the atoms of the tree, what    *)
(* is wrong with a folder as it was found, and the record of the calls of  *)
(* evaluate that have returned.                                            *)
(***************************************************************************)

AtomPaths(tree) == {p \in Paths(tree) : NodeAt(tree, p).type = "ScriptNode"}

AtomNames(tree) == {NodeAt(tree, p).name : p \in AtomPaths(tree)}

\* the folder is missing, or the registry has no entry for the name, or
\* the folder's digest is not the registry's
DirFails(name, dir) ==
    \/ dir = "absent"
    \/ name \notin DOMAIN script_hashes
    \/ dir # script_hashes[name]

\* some folder checked so far failed
SomeCheckFailed == \E i \in 1..Len(checked) : DirFails(checked[i].name, checked[i].dir)

\* every atom name of the tree was checked and passed, in the log chk
AllPassed(chk, tree) ==
    \A name \in AtomNames(tree) :
        \E i \in 1..Len(chk) : chk[i].name = name /\ ~DirFails(name, chk[i].dir)

\* the places in the log where the evaluate of the node at path p returned
Returns(p) == {i \in 1..Len(evaluated) : evaluated[i].path = p}

Returned(p) == Returns(p) # {}

ReturnOf(p) == CHOOSE i \in Returns(p) : TRUE

ValueOf(p) == evaluated[ReturnOf(p)].value

\* the children of the node at p whose evaluate returned
EvaluatedChildren(p) ==
    {i \in 1..Len(ChildrenOf(NodeAt(expression_tree, p))) : Returned(Append(p, i))}

\* each evaluated child of p was evaluated once, and they in list order
OnceInOrder(p) ==
    /\ \A i \in EvaluatedChildren(p) : Cardinality(Returns(Append(p, i))) = 1
    /\ \A i, j \in EvaluatedChildren(p) :
           i < j => ReturnOf(Append(p, i)) < ReturnOf(Append(p, j))
    /\ \A i \in EvaluatedChildren(p) : ReturnOf(Append(p, i)) < ReturnOf(p)

\* no script at or below path p was run
NothingInvokedBelow(p) == \A m \in 1..Len(invoked) : ~IsPrefix(p, invoked[m].path)

\* the operator nodes of the tree whose evaluate returned, by policy
ReturnedOperators(circuit_breaking) ==
    {p \in Paths(expression_tree) :
         /\ IsOperatorNode(NodeAt(expression_tree, p))
         /\ NodeAt(expression_tree, p).circuit_breaking = circuit_breaking
         /\ Returned(p)}

\* the NOT nodes of the tree whose evaluate returned
ReturnedNots ==
    {p \in Paths(expression_tree) :
         NodeAt(expression_tree, p).type = "NotNode" /\ Returned(p)}

\* the run got an expression and is past its parse
PastParse ==
    Len(argv) >= 3 /\ pc \in {"verify", "evaluate", "evaluate_return", "done"}

\* the parse of a well-formed text left part of it unread
TrailingContent ==
    PastParse /\ validate_expression_format(argv[3]) /\ pos < Len(expr)

(***************************************************************************)
(* C1.  Pre-flight is all-or-nothing: once a folder that was checked is    *)
(* found missing, without a registry entry, or with another digest than    *)
(* the registry's, no script is ever run, the run does not go on to the    *)
(* evaluation, and it exits with code 1.  Every folder checked belongs to  *)
(* an atom of the tree.                                                    *)
(***************************************************************************)
C1_PreflightAllOrNothing ==
    /\ \A i \in 1..Len(checked) : checked[i].name \in AtomNames(expression_tree)
    /\ SomeCheckFailed =>
           /\ invoked = << >>
           /\ pc \in {"verify", "done"}
           /\ pc = "done" => exit_code = 1

\* a run that ended on a script whose folder exists but has no registry
\* entry, after another script passed
C1_Witness ==
    /\ pc = "done" /\ exit_code = 1 /\ invoked = << >>
    /\ Len(checked) >= 2
    /\ checked[Len(checked)].name \notin DOMAIN script_hashes
    /\ checked[Len(checked)].dir # "absent"

(***************************************************************************)
(* C2.  Verification precedes execution: at the step that runs the first   *)
(* script, every atom name of the tree (also those under a NOT and those   *)
(* the evaluation will skip) has been checked and has passed, and once a   *)
(* script has run no folder is checked any more.                           *)
(***************************************************************************)
C2_VerificationPrecedesExecution ==
    [][ /\ (invoked = << >> /\ invoked' # << >>) => AllPassed(checked, expression_tree)
        /\ invoked # << >> => checked' = checked ]_vars

\* a finished run that ran a script, in a tree with a NOT over an atom and
\* with an atom the evaluation skipped
C2_Witness ==
    /\ pc = "done" /\ invoked # << >>
    /\ \E p \in AtomPaths(expression_tree) : ~Returned(p)
    /\ \E p \in AtomPaths(expression_tree) :
           Len(p) >= 1 /\ NodeAt(expression_tree, Pop(p)).type = "NotNode"

(***************************************************************************)
(* C3.  A circuit-breaking AND (OR) whose evaluate returned evaluated its  *)
(* children once each, left to right, up to and including the first child  *)
(* that is false (true), and returned false (true); nothing in a later     *)
(* child was run.  With no such child it evaluated all of them and         *)
(* returned true (false).                                                  *)
(***************************************************************************)
C3_ShortCircuit ==
    \A p \in ReturnedOperators(TRUE) :
        LET node == NodeAt(expression_tree, p)
            n    == Len(node.children)
            stop == IF node.type = "AndNode" THEN FALSE ELSE TRUE
            hits == {i \in EvaluatedChildren(p) : ValueOf(Append(p, i)) = stop}
        IN  /\ OnceInOrder(p)
            /\ IF hits # {}
               THEN \E k \in 1..n :
                        /\ hits = {k}
                        /\ EvaluatedChildren(p) = 1..k
                        /\ ValueOf(p) = stop
                        /\ \A j \in (k + 1)..n : NothingInvokedBelow(Append(p, j))
               ELSE /\ EvaluatedChildren(p) = 1..n
                    /\ ValueOf(p) = ~stop

\* a finished run in which a circuit-breaking operator of three children
\* stopped at its second child
C3_Witness ==
    /\ pc = "done"
    /\ \E p \in ReturnedOperators(TRUE) :
           /\ Len(NodeAt(expression_tree, p).children) = 3
           /\ EvaluatedChildren(p) = {1, 2}

(***************************************************************************)
(* C4.  A plain AND (OR) whose evaluate returned evaluated every child     *)
(* once, left to right, whatever the results, and returned true iff all    *)
(* children (at least one child) evaluated true.                           *)
(***************************************************************************)
C4_NoShortCircuit ==
    \A p \in ReturnedOperators(FALSE) :
        LET node == NodeAt(expression_tree, p)
            n    == Len(node.children)
        IN  /\ OnceInOrder(p)
            /\ EvaluatedChildren(p) = 1..n
            /\ ValueOf(p) = IF node.type = "AndNode"
                            THEN \A i \in 1..n : ValueOf(Append(p, i))
                            ELSE \E i \in 1..n : ValueOf(Append(p, i))

\* a finished run in which a plain operator went on after the child that
\* would have decided it: a script that failed under &, one that succeeded
\* under |
C4_Witness ==
    /\ pc = "done"
    /\ \E p \in ReturnedOperators(FALSE) :
           LET node == NodeAt(expression_tree, p) IN
           /\ Len(node.children) >= 2
           /\ node.children[1].type = "ScriptNode"
           /\ ValueOf(Append(p, 1)) = (node.type = "OrNode")
           /\ \E m \in 1..Len(invoked) : IsPrefix(Append(p, 2), invoked[m].path)

(***************************************************************************)
(* C5.  A NOT with a child evaluates the child once (a script child is     *)
(* run) and returns the negation of the child's result.  A NOT with no     *)
(* child returns false, and its evaluate runs nothing and stores nothing.  *)
(***************************************************************************)
C5_Not ==
    [][ /\ \A p \in ReturnedNots' :
               LET node == NodeAt(expression_tree', p) IN
               IF node.child = None
               THEN evaluated'[ReturnOf(p)'].value = FALSE
               ELSE /\ Cardinality(Returns(Append(p, 1))') = 1
                    /\ ReturnOf(Append(p, 1))' < ReturnOf(p)'
                    /\ evaluated'[ReturnOf(p)'].value
                           = ~evaluated'[ReturnOf(Append(p, 1))'].value
                    /\ node.child.type = "ScriptNode" =>
                           \E m \in 1..Len(invoked') : invoked'[m].path = Append(p, 1)
        /\ ( /\ pc = "evaluate"
             /\ NodeAt(expression_tree, cur).type = "NotNode"
             /\ NodeAt(expression_tree, cur).child = None )
           => /\ invoked' = invoked
              /\ results' = results
              /\ pc' = "evaluate_return" /\ child_result' = FALSE ]_vars

\* a finished run in which a NOT with no child and a NOT over a script
\* both returned
C5_Witness ==
    /\ pc = "done"
    /\ \E p, q \in ReturnedNots :
           /\ NodeAt(expression_tree, p).child = None
           /\ NodeAt(expression_tree, q).child # None
           /\ \E m \in 1..Len(invoked) : invoked[m].path = Append(q, 1)

(***************************************************************************)
(* C6.  A run that ended has exit code 0 or 1, and 0 exactly if there was  *)
(* an expression, it parsed to a tree, every atom name passed the          *)
(* pre-flight checks, and the tree evaluated to true.                      *)
(***************************************************************************)
C6_ExitCode ==
    pc = "done" =>
        /\ exit_code \in {0, 1}
        /\ exit_code = 0 <=>
               /\ Len(argv) >= 3
               /\ expression_tree # None
               /\ AllPassed(checked, expression_tree)
               /\ Returned(<< >>)
               /\ ValueOf(<< >>)

\* a run that ended with exit code 0 after running several scripts
C6_Witness == pc = "done" /\ exit_code = 0 /\ Len(invoked) >= 2

(***************************************************************************)
(* C7.  Every run ends with an exit code of 0 or 1: the parser always      *)
(* advances, so no text makes it loop.                                     *)
(***************************************************************************)
C7_Terminates == <>(pc = "done" /\ exit_code \in {0, 1})

(***************************************************************************)
(* C8.  As claimed: when the parse of the top-level expression leaves      *)
(* part of the text unread, the run exits with code 1 and runs no script.  *)
(***************************************************************************)
C8_TrailingContentFatal ==
    TrailingContent => invoked = << >> /\ (pc = "done" => exit_code = 1)

(***************************************************************************)
(* C8, amended.  When the parse yields no node, whether or not text is     *)
(* left unread, the run exits with code 1 at once: nothing is checked and  *)
(* nothing is run.  When it yields a node, text left unread changes        *)
(* nothing: the run goes on with that tree and ends with exit code 0 if    *)
(* every atom name passes and the tree evaluates to true.                  *)
(***************************************************************************)
C8_OnlyMissingTreeFatal ==
    /\ (PastParse /\ expression_tree = None) =>
           pc = "done" /\ exit_code = 1 /\ checked = << >> /\ invoked = << >>
    /\ (TrailingContent /\ expression_tree # None /\ pc = "done") =>
           exit_code = IF /\ AllPassed(checked, expression_tree)
                          /\ Returned(<< >>)
                          /\ ValueOf(<< >>)
                       THEN 0 ELSE 1

\* a run that ended after a parse that gave no node and left text unread
C8_Witness ==
    /\ TrailingContent /\ expression_tree = None
    /\ pc = "done" /\ exit_code = 1

(***************************************************************************)
(* C9.  As claimed: the text (A:"x,y",z) parses to the script A with the   *)
(* two arguments x,y and z.                                                *)
(***************************************************************************)
C9_QuotedComma ==
    ( /\ PastParse
      /\ argv[3] = <<"(", "A", ":", "\"", "x", ",", "y", "\"", ",", "z", ")">> )
    => expression_tree = ScriptNode(<<"A">>, << <<"x", ",", "y">>, <<"z">> >>)

(***************************************************************************)
(* C10.  As claimed: the parse of the string form of a parsed tree is that *)
(* tree again, for every expression.                                       *)
(***************************************************************************)
C10_RoundTrip ==
    (pc = "done" /\ first # << >>) => expression_tree = first[1]

\* the arguments of every script of the tree are bare tokens: not empty,
\* no comma, double quote, backslash or parenthesis, no space at either end
BareArguments(tree) ==
    \A p \in AtomPaths(tree) :
        /\ "(" \notin Range(NodeAt(tree, p).name)
        /\ \A a \in Range(NodeAt(tree, p).args) :
               /\ a # << >>
               /\ Range(a) \cap {",", "\"", "\\", "(", ")"} = {}
               /\ Strip(a) = a

(***************************************************************************)
(* C10, amended.  The round trip gives the same tree for every expression  *)
(* written without double quotes and backslashes whose scripts have bare,  *)
(* non-empty arguments.                                                    *)
(***************************************************************************)
C10_RoundTripBare ==
    ( /\ pc = "done" /\ first # << >>
      /\ Range(argv[3]) \cap {"\"", "\\"} = {}
      /\ BareArguments(first[1]) )
    => expression_tree = first[1]

\* a finished round trip of an operator over scripts with arguments
C10_Witness ==
    /\ pc = "done" /\ first # << >>
    /\ Range(argv[3]) \cap {"\"", "\\"} = {}
    /\ BareArguments(first[1])
    /\ IsOperatorNode(first[1])
    /\ \E p \in AtomPaths(first[1]) : Len(NodeAt(first[1], p).args) >= 2
    /\ expression_tree = first[1]

\* the status codes of the scripts run so far, in the order they were run
InvokedStatuses == [m \in 1..Len(invoked) |-> invoked[m].status]

(***************************************************************************)
(* C11.  When the run has ended (usage error, parse failure, pre-flight    *)
(* failure or completed evaluation), the last line written to stderr is    *)
(* the exit code, and the lines before it are the status codes of the      *)
(* scripts that were run, one per run and in the order of the runs.        *)
(***************************************************************************)
C11_StderrEndsWithExitCode ==
    pc = "done" =>
        /\ stderr # << >>
        /\ stderr[Len(stderr)] = exit_code
        /\ SubSeq(stderr, 1, Len(stderr) - 1) = InvokedStatuses

\* a completed evaluation of two scripts with different status codes whose
\* exit code is not the last status written
C11_Witness ==
    /\ pc = "done" /\ Len(invoked) = 2
    /\ invoked[1].status # invoked[2].status
    /\ exit_code # invoked[2].status
    /\ stderr = <<invoked[1].status, invoked[2].status, exit_code>>

\* the operator nodes of a tree
OperatorPaths(tree) == {p \in Paths(tree) : IsOperatorNode(NodeAt(tree, p))}

(***************************************************************************)
(* C12.  As claimed: every AND and OR node of the tree the parse returned  *)
(* has at least one child, so none is evaluated with no children.          *)
(***************************************************************************)
C12_OperatorsHaveChildren ==
    \A p \in OperatorPaths(expression_tree) :
        NodeAt(expression_tree, p).children # << >>

\* the step is a call of ScriptNode.evaluate
AtomCalled == pc = "evaluate" /\ NodeAt(expression_tree, cur).type = "ScriptNode"

\* a call of ScriptNode.evaluate runs the node's script once, with the
\* node's name and arguments, returns true iff the status is 0, and stores
\* in the node's result the returned boolean (as_boolean) or the status
\* code itself; no other step runs a script
AtomEvaluation(as_boolean) ==
    IF AtomCalled
    THEN LET node == NodeAt(expression_tree, cur)
             call == invoked'[Len(invoked')]
         IN  /\ invoked' = Append(invoked, call)
             /\ call.path = cur /\ call.name = node.name /\ call.args = node.args
             /\ call.status \in Nat
             /\ pc' = "evaluate_return"
             /\ child_result' = (call.status = 0)
             /\ results' = [results EXCEPT ![cur] =
                                IF as_boolean THEN BoolResult(child_result')
                                              ELSE IntResult(call.status)]
    ELSE invoked' = invoked

(***************************************************************************)
(* C13.  As claimed: an evaluation of an atom runs its script exactly      *)
(* once with the atom's name and arguments, returns true for status 0 and  *)
(* false for any other status, and stores that boolean as the node's       *)
(* result.                                                                 *)
(***************************************************************************)
C13_AtomStoresBoolean == [][AtomEvaluation(TRUE)]_vars

(***************************************************************************)
(* C13, amended.  The same, but what the node stores as its result is the  *)
(* status code (0 when true was returned), not the boolean.                *)
(***************************************************************************)
C13_AtomStoresStatus == [][AtomEvaluation(FALSE)]_vars

\* a script with arguments has just failed, after another one succeeded:
\* false was returned and status 1 stored
C13_Witness ==
    /\ pc = "evaluate_return" /\ Len(invoked) >= 2
    /\ LET call == invoked[Len(invoked)] IN
       /\ call.path = cur /\ call.args # << >> /\ call.status = 1
       /\ child_result = FALSE
       /\ results[cur] = IntResult(1)
    /\ \E m \in 1..Len(invoked) :
           invoked[m].status = 0 /\ results[invoked[m].path] = IntResult(0)

\* the status the executor_func gave the script name with arguments args,
\* in a log where it is stateless
StatusOf(name, args) ==
    LET calls == {m \in 1..Len(invoked) :
                      invoked[m].name = name /\ invoked[m].args = args}
    IN  invoked[CHOOSE m \in calls : TRUE].status

RECURSIVE StandardValue(_)
\* the Boolean value of the tree read as a formula: an atom is true iff
\* its status is 0, an AND is the conjunction and an OR the disjunction of
\* its children, a NOT the negation of its child
StandardValue(node) ==
    IF node.type = "ScriptNode" THEN StatusOf(node.name, node.args) = 0
    ELSE IF node.type = "NotNode" THEN ~StandardValue(node.child)
    ELSE IF node.type = "AndNode"
    THEN \A i \in 1..Len(node.children) : StandardValue(node.children[i])
    ELSE \E i \in 1..Len(node.children) : StandardValue(node.children[i])

\* the tree is a formula: every NOT has an operand
IsFormula(tree) ==
    \A p \in Paths(tree) :
        NodeAt(tree, p).type = "NotNode" => NodeAt(tree, p).child # None

(***************************************************************************)
(* C14.  With a stateless executor_func, the evaluation of a tree and the  *)
(* evaluation of the same tree with & for every && and | for every ||      *)
(* return the same boolean, and when the tree is a formula that boolean    *)
(* is its standard Boolean value with status 0 read as true.               *)
(***************************************************************************)
C14_ShortCircuitSameBoolean ==
    pc = "done" =>
        /\ child_result = first[1].value
        /\ IsFormula(first[1].tree) =>
               first[1].value = StandardValue(first[1].tree)

\* both evaluations of a formula have returned; the first one, breaking
\* the circuit, ran fewer scripts than the second
C14_Witness ==
    /\ pc = "done"
    /\ IsFormula(first[1].tree)
    /\ first[1].tree # expression_tree
    /\ first[1].calls >= 1
    /\ first[1].calls < Len(invoked) - first[1].calls
    /\ child_result = first[1].value

\* the calls of executor_func and the returns of evaluate of the second pass
SecondCalls == SubSeq(invoked, first[1].calls + 1, Len(invoked))

SecondReturns == SubSeq(evaluated, first[1].returns + 1, Len(evaluated))

RECURSIVE Outcome(_, _, _), OutcomeOfChildren(_, _, _, _)
\* what an evaluation of node (at path) is to do when the scripts it runs
\* return the statuses of stream, one after the other: the boolean it
\* returns, the atoms it runs, in order, and the statuses it leaves.  It
\* is a function of the tree and of these statuses alone.
Outcome(node, path, stream) ==
    IF node.type = "ScriptNode"
    THEN IF stream = << >>
         THEN [value |-> FALSE, ran |-> <<path>>, rest |-> << >>, short |-> TRUE]
         ELSE [value |-> Head(stream) = 0, ran |-> <<path>>, rest |-> Tail(stream),
               short |-> FALSE]
    ELSE IF node.type = "NotNode"
    THEN IF node.child = None
         THEN [value |-> FALSE, ran |-> << >>, rest |-> stream, short |-> FALSE]
         ELSE LET c == Outcome(node.child, Append(path, 1), stream)
              IN  [c EXCEPT !.value = ~c.value]
    ELSE OutcomeOfChildren(node, path, 1,
             [value |-> node.type = "AndNode", ran |-> << >>, rest |-> stream,
              short |-> FALSE])

\* the same for the children of an operator node from the i-th on, acc
\* being the outcome of those before
OutcomeOfChildren(node, path, i, acc) ==
    IF i > Len(node.children) THEN acc
    ELSE LET c    == Outcome(node.children[i], Append(path, i), acc.rest)
             stop == IF node.type = "AndNode" THEN ~c.value ELSE c.value
             next == [value |-> IF stop THEN c.value ELSE acc.value,
                      ran   |-> acc.ran \o c.ran,
                      rest  |-> c.rest,
                      short |-> acc.short \/ c.short]
         IN  IF stop /\ node.circuit_breaking THEN next
             ELSE OutcomeOfChildren(node, path, i + 1, next)

\* the second pass ran the atoms and returned the boolean that the
\* statuses returned during the second pass determine
SecondPassAfresh ==
    LET o == Outcome(expression_tree, << >>,
                     [m \in 1..Len(SecondCalls) |-> SecondCalls[m].status])
    IN  /\ ~o.short /\ o.rest = << >>
        /\ o.ran = [m \in 1..Len(SecondCalls) |-> SecondCalls[m].path]
        /\ o.value = child_result

\* what the second pass has for the node at path p, which it evaluated:
\* the status of its script for an atom, else the boolean it returned
SecondValue(p) ==
    IF NodeAt(expression_tree, p).type = "ScriptNode"
    THEN LET m == CHOOSE m \in 1..Len(SecondCalls) : SecondCalls[m].path = p
         IN  IntResult(SecondCalls[m].status)
    ELSE LET m == CHOOSE m \in 1..Len(SecondReturns) : SecondReturns[m].path = p
         IN  BoolResult(SecondReturns[m].value)

(***************************************************************************)
(* C15.  As claimed: when the same tree is evaluated a second time, the    *)
(* atoms run and the boolean returned in the second pass are those the     *)
(* statuses returned during the second pass determine, whatever the first  *)
(* pass stored, and the result field of every node the second pass         *)
(* evaluated holds its second-pass value.                                  *)
(***************************************************************************)
C15_Reentrant ==
    pc = "done" =>
        /\ SecondPassAfresh
        /\ \A m \in 1..Len(SecondReturns) :
               results[SecondReturns[m].path] = SecondValue(SecondReturns[m].path)

(***************************************************************************)
(* C16.  The pre-flight checks each distinct atom name at most once in a   *)
(* run, however often it occurs in the expression, and checks no further   *)
(* name once a name has failed a check (no folder, no registry entry, or   *)
(* another digest): only the last folder checked can be a failing one.     *)
(***************************************************************************)
C16_FailFastOverDistinctNames ==
    /\ \A i, j \in 1..Len(checked) : i # j => checked[i].name # checked[j].name
    /\ \A i \in 1..(Len(checked) - 1) : ~DirFails(checked[i].name, checked[i].dir)

\* a run that ended on the failure of the first name checked, a name that
\* occurs twice in the tree, with another name left unchecked
C16_Witness ==
    /\ pc = "done" /\ exit_code = 1
    /\ Len(checked) = 1 /\ Len(script_names) = 2
    /\ DirFails(checked[1].name, checked[1].dir)
    /\ Cardinality({p \in AtomPaths(expression_tree) :
                        NodeAt(expression_tree, p).name = checked[1].name}) >= 2

=============================================================================
